---- MODULE Spec2Model ----
(***************************************************************************)
(* Model of the micro scraper of src/app/page.tsx: the route handler GET,  *)
(* the deadline guard withTimeout, navigateWithRetry, extractPageMetadata  *)
(* and the helpers isValidHttpUrl and sanitize.                            *)
(*                                                                         *)
(* Every await of the code is a suspension point.  One action of the model *)
(* is one event-loop turn: the settlement of one browser operation (or the *)
(* firing of the deadline timer) followed by all the code that runs before *)
(* the next suspension, promise reactions included, since micro-tasks are  *)
(* drained before the event loop takes the next timer or I/O callback.     *)
(* Strings are sequences of one-character strings.                         *)
(*                                                                         *)
(* Spec is the server side for NumRequests requests; ConcSpec interleaves  *)
(* NumConcurrent of them.  SanSpec and PageSpec apply sanitize and the     *)
(* page function to bounded inputs.  ClientSpec is the form of Home:       *)
(* handlePrefill, handleSubmit and the url field.                          *)
(***************************************************************************)
EXTENDS Integers, Sequences, FiniteSets, TLC

VARIABLES
    url,      \* url[r]: the value of the request's "url" search parameter
    handler,  \* handler[r]: position of GET and the responses it returned
    guard,    \* guard[r]: withTimeout's timer and the promise it returns
    ext,      \* ext[r]: locals and position of extractPageMetadata
    browser,  \* browser[r]: the browser calls of the request and their results
    hist,     \* hist[r]: order in which the extraction settled and the timer fired
    pure,     \* input and result of a helper applied on its own
    client    \* state of the form component Home and of its handleSubmit

vars == <<url, handler, guard, ext, browser, hist, pure, client>>

(***************************** bounds and constants ************************)

\* Number of requests served by the model.
NumRequests == 1

\* navigateWithRetry's default for its parameter attempts.
DefaultAttempts == 2

\* Status given to a record when goto returned no response object.
DefaultStatus == 200

\* The overall budget of a request and the timeout of one goto, in ms.
REQUEST_TIMEOUT_MS == 20000
NAVIGATION_TIMEOUT_MS == 15000

Requests == 1 .. NumRequests

(********************************* strings *********************************)

\* null / undefined
Null == <<"<null>">>

WhiteSpace == {" ", "\t", "\n"}

RECURSIVE CollapseWhiteSpace(_)
\* value.replace(/\s+/g, " "): every maximal run of white space becomes " ".
CollapseWhiteSpace(s) ==
    IF s = <<>> THEN <<>>
    ELSE IF Head(s) \in WhiteSpace
         THEN IF Len(s) > 1 /\ s[2] \in WhiteSpace
              THEN CollapseWhiteSpace(Tail(s))
              ELSE <<" ">> \o CollapseWhiteSpace(Tail(s))
         ELSE <<Head(s)>> \o CollapseWhiteSpace(Tail(s))

RECURSIVE TrimStart(_)
TrimStart(s) ==
    IF s # <<>> /\ Head(s) \in WhiteSpace THEN TrimStart(Tail(s)) ELSE s

RECURSIVE TrimEnd(_)
TrimEnd(s) ==
    IF s # <<>> /\ s[Len(s)] \in WhiteSpace
    THEN TrimEnd(SubSeq(s, 1, Len(s) - 1))
    ELSE s

\* String.prototype.trim
Trim(s) == TrimEnd(TrimStart(s))

\* sanitize without the trim: what a forgotten .trim() would leave.
sanitizeNoTrim(value) ==
    CollapseWhiteSpace(IF value = Null THEN <<>> ELSE value)

\* (value ?? "").replace(/\s+/g, " ").trim()
sanitize(value) ==
    Trim(CollapseWhiteSpace(IF value = Null THEN <<>> ELSE value))

(*********************************** URLs **********************************)

Lower(c) ==
    CASE c = "H" -> "h" [] c = "T" -> "t" [] c = "P" -> "p" [] c = "S" -> "s"
      [] c = "F" -> "f" [] OTHER -> c

Alpha == {"h", "t", "p", "s", "f", "a", "H", "T", "P", "S", "F"}
SchemeChar == Alpha \cup {"+", "-", "."}
SpecialSchemes == {<<"h","t","t","p">>, <<"h","t","t","p","s">>, <<"f","t","p">>}

RECURSIVE IndexOf(_, _, _)
\* least index >= i of character c in s, 0 when there is none
IndexOf(s, c, i) ==
    IF i > Len(s) THEN 0 ELSE IF s[i] = c THEN i ELSE IndexOf(s, c, i + 1)

RECURSIVE SkipSlashes(_)
SkipSlashes(s) ==
    IF s # <<>> /\ Head(s) \in {"/", "\\"} THEN SkipSlashes(Tail(s)) ELSE s

\* new URL(value), without a base: the fragment of the URL parser the handler
\* relies on.  Leading and trailing spaces are stripped; the scheme is the
\* text before the first ":", it starts with a letter, and is lower-cased;
\* a special scheme (http, https, ftp) needs a non-empty host.  The result
\* is [ok |-> FALSE] where the constructor throws.
ParseURL(value) ==
    LET v == Trim(value)
        colon == IndexOf(v, ":", 1)
        raw == SubSeq(v, 1, colon - 1)
        scheme == [i \in 1 .. Len(raw) |-> Lower(raw[i])]
        rest == SubSeq(v, colon + 1, Len(v))
    IN  IF colon <= 1 THEN [ok |-> FALSE]
        ELSE IF raw[1] \notin Alpha \/ \E i \in 1 .. Len(raw) : raw[i] \notin SchemeChar
        THEN [ok |-> FALSE]
        ELSE IF scheme \in SpecialSchemes /\ SkipSlashes(rest) = <<>>
        THEN [ok |-> FALSE]
        ELSE [ok |-> TRUE, protocol |-> scheme \o <<":">>]

\* isValidHttpUrl accepting every URL that parses: the scheme test left out.
isValidAnyUrl(value) == ParseURL(value).ok

\* isValidHttpUrl: true iff value parses and its protocol is http: or https:
isValidHttpUrl(value) ==
    LET parsed == ParseURL(value)
    IN  IF parsed.ok
        THEN parsed.protocol \in {<<"h","t","t","p",":">>, <<"h","t","t","p","s",":">>}
        ELSE FALSE

\* The values of the "url" parameter the requests are drawn from.
RawUrls ==
    { Null,                                        \* parameter missing
      <<>>,                                        \* url=
      <<"a">>,                                     \* not a URL
      <<"h","t","t","p",":">>,                     \* http scheme, no host
      <<"f","t","p",":","/","/","a">>,             \* ftp://a
      <<"H","T","T","P","S",":","/","/","a">> }    \* HTTPS://a

\* EXAMPLE_TARGETS: the URLs of the prefill buttons.
ExampleTargets ==
    << <<"h","t","t","p","s",":","/","/","s">>,
       <<"h","t","t","p","s",":","/","/","a">> >>

(********************************* values **********************************)

\* State of a promise.
Pending == [kind |-> "pending"]
Fulfilled(v) == [kind |-> "fulfilled", val |-> v]
Rejected(e) == [kind |-> "rejected", val |-> e]

\* The error thrown by the n-th call of browser operation op.
Err(op, n) == [name |-> op, call |-> n]
NoError == [name |-> "undefined", call |-> 0]
RequestTimeoutError == [name |-> "RequestTimeoutError", call |-> 0]
NavigationFailedError == [name |-> "Navigation failed", call |-> 0]

\* The engine instance chromium.launch returns to request r: a new browser
\* process for every launch.  NoEngine is null.
NoEngine == [engine |-> 0]
EngineShared(r) == [engine |-> 1]
Engine(r) == [engine |-> r]

\* A browser call: in flight, returned, or thrown.
InFlight(on) == [st |-> "pending", on |-> on]
Ok(v) == [st |-> "ok", val |-> v]
Failed(e) == [st |-> "error", val |-> e]
Void == [void |-> TRUE]

Ops == {"launch", "newContext", "newPage", "goto", "waitForLoadState",
        "evaluate", "close"}

\* What page.goto can return: null, or a response with a status code.
NullResponse == [present |-> FALSE, status |-> 0]
Response(code) == [present |-> TRUE, status |-> code]
GotoResponses == {NullResponse, Response(404)}

invalidUrlResponse == [status |-> 400, body |-> [error |-> "Invalid URL"]]
timeoutResponse == [status |-> 504, body |-> [error |-> "Timeout"]]
failureResponse == [status |-> 500, body |-> [error |-> "Unable to complete scrape"]]
successResponse(payload) == [status |-> 200, body |-> payload]

(******************************** documents ********************************)

\* A loaded document, as far as the page function reads it: its title, the
\* elements meta[name="description"] and meta[property="og:description"]
\* (absent, or present with a content attribute that may be missing), and
\* the text of its h1 elements in document order.
NoElement == [exists |-> FALSE, content |-> Null]
Element(content) == [exists |-> TRUE, content |-> content]

Docs ==
    { [title |-> <<"E", "x">>,
       metaName |-> NoElement,
       metaOg |-> Element(<<" ", " ", "A", " ", "\t", " ", "t", " ">>),
       h1 |-> << <<"W">>, <<"V">> >>],
      [title |-> <<"\n", "a", " ", " ", "b">>,
       metaName |-> Element(<<"d", "\n">>),
       metaOg |-> Element(<<"o">>),
       h1 |-> << >>] }

\* a ?? b
Coalesce(a, b) == IF a = Null THEN b ELSE a

\* document.querySelector(sel)?.getAttribute("content")
ContentOf(el) == IF el.exists THEN el.content ELSE Null

\* The page function with || in place of ??: an empty content attribute
\* falls through to the next source.
pageFunctionOr(doc) ==
    LET Or(a, b) == IF a = Null \/ a = <<>> THEN b ELSE a
    IN  [title |-> Or(doc.title, <<>>),
         metaDescription |->
             Or(ContentOf(doc.metaName), Or(ContentOf(doc.metaOg), <<>>)),
         h1 |-> IF doc.h1 = <<>> THEN <<>> ELSE Or(doc.h1[1], <<>>)]

\* The function extractPageMetadata hands to page.evaluate.
pageFunction(doc) ==
    [title |-> Coalesce(doc.title, <<>>),
     metaDescription |->
         Coalesce(ContentOf(doc.metaName), Coalesce(ContentOf(doc.metaOg), <<>>)),
     h1 |-> IF doc.h1 = <<>> THEN <<>> ELSE Coalesce(doc.h1[1], <<>>)]

\* The record with response.status() read without the ?? 200.
PageResponseNoDefault(data, response) ==
    [title |-> sanitize(data.title),
     metaDescription |-> sanitize(data.metaDescription),
     h1 |-> sanitize(data.h1),
     status |-> response.status]

\* The record extractPageMetadata returns.
PageResponse(data, response) ==
    [title |-> sanitize(data.title),
     metaDescription |-> sanitize(data.metaDescription),
     h1 |-> sanitize(data.h1),
     status |-> IF response.present THEN response.status ELSE DefaultStatus]

(********************************** state **********************************)

\* The state of one request, as the code of one event-loop turn transforms it.
World(r) ==
    [handler |-> handler[r], guard |-> guard[r], ext |-> ext[r],
     browser |-> browser[r]]

InitHandler == [pc |-> "start", responses |-> <<>>]
InitGuard == [timer |-> "unset", state |-> Pending]
InitExt ==
    [pc |-> "idle", url |-> Null, instance |-> NoEngine, attempt |-> 0,
     lastError |-> NoError, response |-> NullResponse,
     pending |-> Pending, outcome |-> Pending]
InitBrowser == [op \in Ops |-> <<>>]

\* No helper is applied on its own.
NoPure == [fn |-> "none"]

\* A useState value that is null, or v.
NullState == [isNull |-> TRUE]
State(v) == [isNull |-> FALSE, value |-> v]

\* No response has come back to the fetch.
NoResponse == [status |-> 0, ok |-> FALSE, json |-> FALSE, body |-> [text |-> ""]]

\* The state of Home after its first render: url is EXAMPLE_TARGETS[0];
\* handleSubmit is not running (pc), has no trimmed url, response or
\* abort timer.  last is the way the last handleSubmit finished, "none"
\* while one runs and after a prefill.
InitClient ==
    [url |-> ExampleTargets[1], result |-> NullState, error |-> NullState,
     isLoading |-> FALSE, pc |-> "idle", trimmed |-> <<>>,
     response |-> NoResponse, timeout |-> "unset", last |-> "none"]

\* No request has arrived.
NoRequests ==
    /\ url = [r \in Requests |-> Null]
    /\ handler = [r \in Requests |-> InitHandler]
    /\ guard = [r \in Requests |-> InitGuard]
    /\ ext = [r \in Requests |-> InitExt]
    /\ browser = [r \in Requests |-> InitBrowser]
    /\ hist = [r \in Requests |-> <<>>]

Init ==
    /\ NoRequests
    /\ pure = NoPure
    /\ client = InitClient

(*********************************** GET ***********************************)

\* GET's catch clause without the instanceof RequestTimeoutError test.
GETCatchNoTimeoutTest(error) == failureResponse

\* GET's catch clause: the response for an error thrown by the await.
GETCatch(error) ==
    IF error = RequestTimeoutError THEN timeoutResponse ELSE failureResponse

\* GET from the point where its await of withTimeout(...) is resumed, to its
\* return.
GETResume(w) ==
    LET settled == w.guard.state
        response == IF settled.kind = "fulfilled"
                    THEN successResponse(settled.val)
                    ELSE GETCatch(settled.val)
    IN  [w EXCEPT !.handler.pc = "done",
                  !.handler.responses = Append(@, response)]

(******************************* withTimeout *******************************)

\* resolve / reject of the promise withTimeout returns: the first settlement
\* stands, later ones are ignored; GET, which awaits the promise, resumes.
SettleGuard(w, outcome) ==
    IF w.guard.state.kind # "pending" THEN w
    ELSE GETResume([w EXCEPT !.guard.state = outcome])

\* clearTimeout(timer): cancels a timer that has not fired yet.
clearTimeout(timer) == IF timer = "armed" THEN "cleared" ELSE timer

\* A timer callback that does not reject.
timerCallbackNoReject(w) == w

\* A timer callback that also abandons the pipeline where it stands.
timerCallbackAborts(w) ==
    SettleGuard([w EXCEPT !.ext.pc = "aborted"], Rejected(RequestTimeoutError))

\* The callback withTimeout hands to setTimeout.
timerCallback(w) == SettleGuard(w, Rejected(RequestTimeoutError))

\* withTimeout's .then reaction with the clearTimeout left out.
withTimeoutThenKeepsTimer(w, value) == SettleGuard(w, Fulfilled(value))

\* withTimeout's .then reaction.
withTimeoutThen(w, value) ==
    SettleGuard([w EXCEPT !.guard.timer = clearTimeout(@)], Fulfilled(value))

\* withTimeout's .catch reaction rejecting with a timeout error of its own
\* instead of the error it caught.
withTimeoutCatchAsTimeout(w, error) ==
    SettleGuard([w EXCEPT !.guard.timer = clearTimeout(@)],
                Rejected(RequestTimeoutError))

\* withTimeout's .catch reaction.
withTimeoutCatch(w, error) ==
    SettleGuard([w EXCEPT !.guard.timer = clearTimeout(@)], Rejected(error))

(*************************** extractPageMetadata ***************************)

\* The code calls browser operation op and suspends until it settles.  The
\* call is made on the engine instance the local variable instance holds (on
\* its context or its page), launch on none.
Call(w, op) ==
    [w EXCEPT !.ext.pc = op,
              !.browser[op] = Append(@, InFlight(w.ext.instance))]

\* The promise of extractPageMetadata settles; the reactions withTimeout
\* registered on it run.
extractSettle(w, outcome) ==
    LET w1 == [w EXCEPT !.ext.pc = "settled", !.ext.outcome = outcome]
    IN  IF outcome.kind = "fulfilled"
        THEN withTimeoutThen(w1, outcome.val)
        ELSE withTimeoutCatch(w1, outcome.val)

\* A finally block that calls close without awaiting it.
finallyBlockNoAwait(w, completion) ==
    IF w.ext.instance # NoEngine
    THEN extractSettle(Call([w EXCEPT !.ext.pending = completion], "close"),
                       completion)
    ELSE extractSettle(w, completion)

\* The finally block, entered with the completion of the try block.
finallyBlock(w, completion) ==
    IF w.ext.instance # NoEngine
    THEN Call([w EXCEPT !.ext.pending = completion], "close")
    ELSE extractSettle(w, completion)

\* The resumption after close without the .catch: the error of close
\* replaces the completion of the try block.
closeSettledNoCatch(w, result) ==
    IF result.st = "ok"
    THEN extractSettle(w, w.ext.pending)
    ELSE extractSettle(w, Rejected(result.val))

\* await instance.close().catch(...) is resumed: the completion of the try
\* block becomes the outcome, whatever close did.
closeSettled(w, result) == extractSettle(w, w.ext.pending)

\* The resumption after evaluate falling back to an empty document when
\* evaluate threw.
evaluateSettledDefaults(w, result) ==
    IF result.st = "ok"
    THEN finallyBlock(w, Fulfilled(PageResponse(pageFunction(result.val),
                                                w.ext.response)))
    ELSE finallyBlock(w, Fulfilled(PageResponse(
             [title |-> <<>>, metaDescription |-> <<>>, h1 |-> <<>>],
             w.ext.response)))

\* return { title: sanitize(...), ..., status: response?.status() ?? 200 }
evaluateSettled(w, result) ==
    IF result.st = "ok"
    THEN finallyBlock(w, Fulfilled(PageResponse(pageFunction(result.val),
                                                w.ext.response)))
    ELSE finallyBlock(w, Rejected(result.val))

\* The resumption after the quiescence wait without the .catch.
waitForLoadStateNoCatch(w, result) ==
    IF result.st = "ok"
    THEN Call(w, "evaluate")
    ELSE finallyBlock(w, Rejected(result.val))

\* await page.waitForLoadState(...).catch(...) is resumed.
waitForLoadStateSettled(w, result) == Call(w, "evaluate")

(**************************** navigateWithRetry ****************************)

\* The head of the for loop: another goto, or the throw after the loop.
navigateLoop(w, attempts) ==
    IF w.ext.attempt <= attempts
    THEN Call(w, "goto")
    ELSE finallyBlock(w, Rejected(IF w.ext.lastError # NoError
                                  THEN w.ext.lastError
                                  ELSE NavigationFailedError))

\* A catch clause that gives up one attempt too late.
navigateCatchOffByOne(w, error, attempts) ==
    LET w1 == [w EXCEPT !.ext.lastError = error]
    IN  IF w1.ext.attempt = attempts + 1
        THEN finallyBlock(w1, Rejected(error))
        ELSE Call([w1 EXCEPT !.ext.attempt = @ + 1], "goto")

\* A catch clause that keeps and throws the first error instead of the last.
navigateCatchFirstError(w, error, attempts) ==
    LET w1 == [w EXCEPT !.ext.lastError = IF @ = NoError THEN error ELSE @]
    IN  IF w1.ext.attempt = attempts
        THEN finallyBlock(w1, Rejected(w1.ext.lastError))
        ELSE navigateLoop([w1 EXCEPT !.ext.attempt = @ + 1], attempts)

\* A catch clause that returns null after the last attempt instead of
\* throwing.
navigateCatchReturnsNull(w, error, attempts) ==
    LET w1 == [w EXCEPT !.ext.lastError = error]
    IN  IF w1.ext.attempt = attempts
        THEN Call([w1 EXCEPT !.ext.response = NullResponse], "waitForLoadState")
        ELSE navigateLoop([w1 EXCEPT !.ext.attempt = @ + 1], attempts)

\* The catch clause of the loop body.
navigateCatch(w, error, attempts) ==
    LET w1 == [w EXCEPT !.ext.lastError = error]
    IN  IF w1.ext.attempt = attempts
        THEN finallyBlock(w1, Rejected(error))
        ELSE navigateLoop([w1 EXCEPT !.ext.attempt = @ + 1], attempts)

\* The resumption after goto with the quiescence wait started but not
\* awaited.
gotoSettledWaitNotAwaited(w, result) ==
    IF result.st = "ok"
    THEN Call(Call([w EXCEPT !.ext.response = result.val], "waitForLoadState"),
              "evaluate")
    ELSE navigateCatch(w, result.val, DefaultAttempts)

\* await page.goto(...) is resumed inside navigateWithRetry; on success
\* extractPageMetadata continues with the quiescence wait.
gotoSettled(w, result) ==
    IF result.st = "ok"
    THEN Call([w EXCEPT !.ext.response = result.val], "waitForLoadState")
    ELSE navigateCatch(w, result.val, DefaultAttempts)

\* await context.newPage() is resumed; navigateWithRetry(page, url) starts.
newPageSettled(w, result) ==
    IF result.st = "ok"
    THEN navigateLoop([w EXCEPT !.ext.attempt = 1], DefaultAttempts)
    ELSE finallyBlock(w, Rejected(result.val))

\* await instance.newContext(...) is resumed.
newContextSettled(w, result) ==
    IF result.st = "ok"
    THEN Call(w, "newPage")
    ELSE finallyBlock(w, Rejected(result.val))

\* The resumption after launch trying the launch a second time.
launchSettledRetries(w, result) ==
    IF result.st = "ok"
    THEN Call([w EXCEPT !.ext.instance = result.val], "newContext")
    ELSE IF Len(w.browser["launch"]) < 2
    THEN Call(w, "launch")
    ELSE finallyBlock(w, Rejected(result.val))

\* await chromium.launch(...) is resumed.
launchSettled(w, result) ==
    IF result.st = "ok"
    THEN Call([w EXCEPT !.ext.instance = result.val], "newContext")
    ELSE finallyBlock(w, Rejected(result.val))

\* extractPageMetadata(url) up to its first await.
extractStart(w, targetUrl) ==
    Call([w EXCEPT !.ext.url = targetUrl], "launch")

\* withTimeout(promise, timeout) up to its return: the timer is set.
withTimeoutStart(w) == [w EXCEPT !.guard.timer = "armed"]

\* GET from its entry to its first await, or to the return of the 400.
GETEntry(w, targetUrl) ==
    IF targetUrl = Null \/ targetUrl = <<>> \/ ~isValidHttpUrl(targetUrl)
    THEN [w EXCEPT !.handler.pc = "done",
                   !.handler.responses = Append(@, invalidUrlResponse)]
    ELSE withTimeoutStart(extractStart([w EXCEPT !.handler.pc = "awaiting"],
                                       targetUrl))

(********************************* actions *********************************)

\* The events of request r that w adds to its history: the extraction
\* settling, the timer callback running.
Events(r, w) ==
    (IF ext[r].outcome.kind = "pending" /\ w.ext.outcome.kind # "pending"
     THEN <<w.ext.outcome.kind>> ELSE <<>>)
    \o (IF guard[r].timer # "fired" /\ w.guard.timer = "fired"
        THEN <<"timer">> ELSE <<>>)

\* Request r moves to state w.
Commit(r, w) ==
    /\ handler' = [handler EXCEPT ![r] = w.handler]
    /\ guard' = [guard EXCEPT ![r] = w.guard]
    /\ ext' = [ext EXCEPT ![r] = w.ext]
    /\ browser' = [browser EXCEPT ![r] = w.browser]
    /\ hist' = [hist EXCEPT ![r] = @ \o Events(r, w)]
    /\ UNCHANGED <<pure, client>>

\* The call of op that request r awaits has settled with result.
Settled(r, op, result) ==
    [World(r) EXCEPT !.browser[op][Len(browser[r][op])] =
                         [st |-> result.st, val |-> result.val, on |-> @.on]]

\* A request arrives and GET runs to its first suspension or to its return.
Request(r) ==
    /\ handler[r].pc = "start"
    /\ \E raw \in RawUrls :
        /\ url' = [url EXCEPT ![r] = raw]
        /\ Commit(r, GETEntry(World(r), raw))

LaunchSettles(r) ==
    /\ ext[r].pc = "launch"
    /\ \E result \in {Ok(Engine(r)), Failed(Err("launch", 1))} :
        Commit(r, launchSettled(Settled(r, "launch", result), result))
    /\ UNCHANGED url

NewContextSettles(r) ==
    /\ ext[r].pc = "newContext"
    /\ \E result \in {Ok(Void), Failed(Err("newContext", 1))} :
        Commit(r, newContextSettled(Settled(r, "newContext", result), result))
    /\ UNCHANGED url

NewPageSettles(r) ==
    /\ ext[r].pc = "newPage"
    /\ \E result \in {Ok(Void), Failed(Err("newPage", 1))} :
        Commit(r, newPageSettled(Settled(r, "newPage", result), result))
    /\ UNCHANGED url

GotoSettles(r) ==
    /\ ext[r].pc = "goto"
    /\ \E result \in {Ok(resp) : resp \in GotoResponses}
                     \cup {Failed(Err("goto", Len(browser[r]["goto"])))} :
        Commit(r, gotoSettled(Settled(r, "goto", result), result))
    /\ UNCHANGED url

WaitForLoadStateSettles(r) ==
    /\ ext[r].pc = "waitForLoadState"
    /\ \E result \in {Ok(Void), Failed(Err("waitForLoadState", 1))} :
        Commit(r, waitForLoadStateSettled(
                      Settled(r, "waitForLoadState", result), result))
    /\ UNCHANGED url

EvaluateSettles(r) ==
    /\ ext[r].pc = "evaluate"
    /\ \E result \in {Ok(doc) : doc \in Docs} \cup {Failed(Err("evaluate", 1))} :
        Commit(r, evaluateSettled(Settled(r, "evaluate", result), result))
    /\ UNCHANGED url

CloseSettles(r) ==
    /\ ext[r].pc = "close"
    /\ \E result \in {Ok(Void), Failed(Err("close", 1))} :
        Commit(r, closeSettled(Settled(r, "close", result), result))
    /\ UNCHANGED url

\* The deadline timer of request r fires and its callback runs.
TimerFires(r) ==
    /\ guard[r].timer = "armed"
    /\ Commit(r, timerCallback([World(r) EXCEPT !.guard.timer = "fired"]))
    /\ UNCHANGED url

BrowserSettles(r) ==
    \/ LaunchSettles(r)
    \/ NewContextSettles(r)
    \/ NewPageSettles(r)
    \/ GotoSettles(r)
    \/ WaitForLoadStateSettles(r)
    \/ EvaluateSettles(r)
    \/ CloseSettles(r)

Next ==
    \E r \in Requests :
        \/ Request(r)
        \/ BrowserSettles(r)
        \/ TimerFires(r)

Spec == Init /\ [][Next]_vars

\* A timer that stays armed eventually fires.
TimerFairSpec ==
    /\ Spec
    /\ \A r \in Requests : WF_vars(TimerFires(r))

\* Every browser operation in flight eventually settles.
FairSpec ==
    /\ Spec
    /\ \A r \in Requests : WF_vars(BrowserSettles(r))

(************************* sanitize on its own *****************************)

\* The longest string sanitize is applied to.
MaxLen == 4

Alphabet == {"a", "b", " ", "\t", "\n"}

\* null/undefined and every string over Alphabet of at most MaxLen characters.
Values == {Null} \cup UNION {[1 .. n -> Alphabet] : n \in 0 .. MaxLen}

Fields == {"title", "metaDescription", "h1"}

SanInit ==
    /\ NoRequests
    /\ client = InitClient
    /\ \E value \in Values : pure = [fn |-> "input", input |-> value]

\* sanitize(value)
SanitizeCall ==
    /\ pure.fn = "input"
    /\ pure' = [fn |-> "sanitize", input |-> pure.input,
                out |-> sanitize(pure.input)]
    /\ UNCHANGED <<url, handler, guard, ext, browser, hist, client>>

\* sanitize(sanitize(value))
SanitizeAgain ==
    /\ pure.fn = "sanitize"
    /\ pure' = [fn |-> "again", input |-> pure.input, out |-> pure.out,
                again |-> sanitize(pure.out)]
    /\ UNCHANGED <<url, handler, guard, ext, browser, hist, client>>

\* The return statement of extractPageMetadata with value in one field of
\* data.
BuildRecord ==
    /\ pure.fn = "input"
    /\ pure.input # Null
    /\ \E f \in Fields, response \in GotoResponses :
        LET data == [g \in Fields |-> IF g = f THEN pure.input ELSE <<>>]
        IN  pure' = [fn |-> "record", data |-> data,
                     record |-> PageResponse(data, response)]
    /\ UNCHANGED <<url, handler, guard, ext, browser, hist, client>>

SanNext == SanitizeCall \/ SanitizeAgain \/ BuildRecord

SanSpec == SanInit /\ [][SanNext]_vars

(********************** the page function on its own ***********************)

\* The most h1 elements of a document.
MaxH1 == 2

\* What a description tag can be: not in the document, without a content
\* attribute, or with one.
MetaChoices ==
    {NoElement, Element(Null), Element(<<>>), Element(<<" ", "d", " ">>),
     Element(<<" ", " ", "A", " ", " ", " ", "t", "e", "s", "t", " ",
               "s", "i", "t", "e", " ", " ">>)}

H1Texts == {<<"W", "e", "l", "c", "o", "m", "e">>, <<" ", "w", "\t">>}

Documents ==
    [title : {<<"E", "x", "a", "m", "p", "l", "e">>},
     metaName : MetaChoices,
     metaOg : MetaChoices,
     h1 : UNION {[1 .. n -> H1Texts] : n \in 0 .. MaxH1}]

PageInit ==
    /\ NoRequests
    /\ client = InitClient
    /\ \E doc \in Documents : pure = [fn |-> "page", doc |-> doc]

\* page.evaluate runs the page function in the document.
EvaluateCall ==
    /\ pure.fn = "page"
    /\ pure' = [fn |-> "evaluate", doc |-> pure.doc,
                data |-> pageFunction(pure.doc)]
    /\ UNCHANGED <<url, handler, guard, ext, browser, hist, client>>

\* The return statement of extractPageMetadata.
ReturnRecord ==
    /\ pure.fn = "evaluate"
    /\ \E response \in GotoResponses \cup {Response(200)} :
        pure' = [fn |-> "return", doc |-> pure.doc,
                 record |-> PageResponse(pure.data, response)]
    /\ UNCHANGED <<url, handler, guard, ext, browser, hist, client>>

PageNext == EvaluateCall \/ ReturnRecord

PageSpec == PageInit /\ [][PageNext]_vars

(******************************* the client ********************************)

\* What the user can type into the url field.
TypedUrls ==
    {<<>>, <<"f", "t", "p", ":", "/", "/", "a">>,
     <<" ", "h", "t", "t", "p", "s", ":", "/", "/", "a", "\n">>}

\* A response of the route as fetch sees it; ok is a status in 200..299.
Http(resp) ==
    [status |-> resp.status, ok |-> resp.status \in 200 .. 299, json |-> TRUE,
     body |-> resp.body]

\* What fetch can resolve to: the four responses of GET, a JSON error
\* without an error field, and a body that is not JSON.
FetchResponses ==
    {Http(successResponse(PageResponse(pageFunction(doc), NullResponse))) :
         doc \in Docs}
    \cup {Http(invalidUrlResponse), Http(timeoutResponse), Http(failureResponse),
          Http([status |-> 404, body |-> [message |-> "Not Found"]]),
          [status |-> 502, ok |-> FALSE, json |-> FALSE,
           body |-> [text |-> "<html>"]]}

\* What the try block can throw.
AbortError == [dom |-> TRUE, name |-> "AbortError", message |-> "aborted"]
TypeError == [dom |-> FALSE, name |-> "TypeError", message |-> "Failed to fetch"]
SyntaxError == [dom |-> FALSE, name |-> "SyntaxError", message |-> "Unexpected token"]
Error(message) == [dom |-> FALSE, name |-> "Error", message |-> message]

\* handlePrefill
handlePrefill(c, candidate) ==
    [c EXCEPT !.url = candidate, !.error = NullState, !.result = NullState,
              !.last = "none"]

\* finally { clearTimeout(timeout); setIsLoading(false); }
handleSubmitFinally(c, how) ==
    [c EXCEPT !.timeout = IF @ = "armed" THEN "cleared" ELSE @,
              !.isLoading = FALSE, !.pc = "idle", !.last = how]

\* The catch clause of handleSubmit, then its finally clause.
handleSubmitCatch(c, err, how) ==
    handleSubmitFinally(
        [c EXCEPT !.error =
            IF err.dom /\ err.name = "AbortError"
            THEN State("Client timeout reached. Please try again.")
            ELSE State(err.message)],
        how)

\* handleSubmit that leaves result alone when the url is not valid.
handleSubmitKeepsResult(c) ==
    LET trimmed == Trim(c.url)
    IN  IF ~isValidHttpUrl(trimmed)
        THEN [c EXCEPT !.error = State("Please enter a valid http(s) URL."),
                       !.last = "invalid"]
        ELSE [c EXCEPT !.isLoading = TRUE, !.error = NullState,
                       !.result = NullState, !.timeout = "armed",
                       !.trimmed = trimmed, !.response = NoResponse,
                       !.pc = "fetch", !.last = "none"]

\* handleSubmit up to its return or to await fetch(...).  The client's
\* isValidHttpUrl (lines 14-21) is the code of the server's.
handleSubmit(c) ==
    LET trimmed == Trim(c.url)
    IN  IF ~isValidHttpUrl(trimmed)
        THEN [c EXCEPT !.error = State("Please enter a valid http(s) URL."),
                       !.result = NullState, !.last = "invalid"]
        ELSE [c EXCEPT !.isLoading = TRUE, !.error = NullState,
                       !.result = NullState, !.timeout = "armed",
                       !.trimmed = trimmed, !.response = NoResponse,
                       !.pc = "fetch", !.last = "none"]

\* await fetch(...) is resumed with a response; response.json() is awaited.
fetchResolved(c, response) == [c EXCEPT !.response = response, !.pc = "json"]

\* await response.json() is resumed or throws.
jsonSettled(c) ==
    IF ~c.response.json
    THEN handleSubmitCatch(c, SyntaxError, "parse")
    ELSE IF ~c.response.ok
    THEN handleSubmitCatch(
             c,
             Error(IF "error" \in DOMAIN c.response.body
                   THEN c.response.body.error
                   ELSE "Unable to complete scrape"),
             "http")
    ELSE handleSubmitFinally([c EXCEPT !.result = State(c.response.body)],
                             "success")

ClientInit ==
    /\ NoRequests
    /\ pure = NoPure
    /\ client = InitClient

\* A click on one of the example buttons.
Prefill ==
    /\ \E i \in 1 .. Len(ExampleTargets) :
        client' = handlePrefill(client, ExampleTargets[i])
    /\ UNCHANGED <<url, handler, guard, ext, browser, hist, pure>>

\* onChange of the url field.
Change ==
    /\ \E value \in TypedUrls : client' = [client EXCEPT !.url = value]
    /\ UNCHANGED <<url, handler, guard, ext, browser, hist, pure>>

\* The form is submitted; its button is disabled while isLoading.
Submit ==
    /\ ~client.isLoading
    /\ client' = handleSubmit(client)
    /\ UNCHANGED <<url, handler, guard, ext, browser, hist, pure>>

FetchResolves ==
    /\ client.pc = "fetch"
    /\ \E response \in FetchResponses : client' = fetchResolved(client, response)
    /\ UNCHANGED <<url, handler, guard, ext, browser, hist, pure>>

\* The request fails in the network.
FetchRejects ==
    /\ client.pc = "fetch"
    /\ client' = handleSubmitCatch(client, TypeError, "network")
    /\ UNCHANGED <<url, handler, guard, ext, browser, hist, pure>>

JsonSettles ==
    /\ client.pc = "json"
    /\ client' = jsonSettled(client)
    /\ UNCHANGED <<url, handler, guard, ext, browser, hist, pure>>

\* The abort timer fires: controller.abort() rejects the fetch or the read
\* of the body that is awaited.
AbortTimerFires ==
    /\ client.timeout = "armed"
    /\ client' = handleSubmitCatch([client EXCEPT !.timeout = "fired"],
                                   AbortError, "abort")
    /\ UNCHANGED <<url, handler, guard, ext, browser, hist, pure>>

ClientNext ==
    \/ Prefill
    \/ Change
    \/ Submit
    \/ FetchResolves
    \/ FetchRejects
    \/ JsonSettles
    \/ AbortTimerFires

ClientSpec == ClientInit /\ [][ClientNext]_vars

(*************************** concurrent requests ***************************)

\* The requests that are in progress together.
NumConcurrent == 2

Concurrent == 1 .. NumConcurrent

ConcInit ==
    /\ url = [r \in Concurrent |-> Null]
    /\ handler = [r \in Concurrent |-> InitHandler]
    /\ guard = [r \in Concurrent |-> InitGuard]
    /\ ext = [r \in Concurrent |-> InitExt]
    /\ browser = [r \in Concurrent |-> InitBrowser]
    /\ hist = [r \in Concurrent |-> <<>>]
    /\ pure = NoPure
    /\ client = InitClient

\* The outcomes of request r the interleavings are explored for: the url
\* parameter missing or valid; launch and goto returning or throwing, goto
\* with a response; the other operations returning, evaluate with a document
\* without h1.
Explored(r) ==
    /\ url[r] \in {Null, <<"H", "T", "T", "P", "S", ":", "/", "/", "a">>}
    /\ \A op \in Ops \ {"launch", "goto"} :
        \A k \in 1 .. Len(browser[r][op]) : browser[r][op][k].st # "error"
    /\ \A k \in 1 .. Len(browser[r]["goto"]) :
        browser[r]["goto"][k].st = "ok" => browser[r]["goto"][k].val.present
    /\ \A k \in 1 .. Len(browser[r]["evaluate"]) :
        browser[r]["evaluate"][k].st = "ok" =>
            browser[r]["evaluate"][k].val.h1 = <<>>

\* One turn of the event loop: it belongs to one request.
ConcNext ==
    \E r \in Concurrent :
        /\ \/ Request(r)
           \/ BrowserSettles(r)
           \/ TimerFires(r)
        /\ Explored(r)'

ConcSpec == ConcInit /\ [][ConcNext]_vars

(********************************* claims **********************************)

\* The calls of op request r made so far, with their results.
Log(r, op) == browser[r][op]

\* The call of op by request r returned / threw.
Returned(r, op) == Log(r, op) # <<>> /\ Log(r, op)[1].st = "ok"
Threw(r, op) == Log(r, op) # <<>> /\ Log(r, op)[1].st = "error"

\* The url parameter is missing, empty, not a URL, or not http(s).
InvalidInput(raw) ==
    \/ raw = Null
    \/ raw = <<>>
    \/ ~ParseURL(raw).ok
    \/ ParseURL(raw).protocol \notin
           {<<"h","t","t","p",":">>, <<"h","t","t","p","s",":">>}

\* Which of the two racing events of request r came first.
FirstEvent(r) == IF hist[r] = <<>> THEN "none" ELSE hist[r][1]

ExtSettled(r) == ext[r].outcome.kind # "pending"

\* Every navigation attempt of request r has been made and has failed.
NavExhausted(r) ==
    /\ Len(Log(r, "goto")) = DefaultAttempts
    /\ \A i \in 1 .. DefaultAttempts : Log(r, "goto")[i].st = "error"

\* C1: a request whose url parameter is missing, empty, unparseable or not
\* http(s) is answered 400 "Invalid URL", and no browser operation and no
\* deadline timer is ever started for it.
C1_InvalidUrlNoBrowserWork ==
    \A r \in Requests :
        (handler[r].pc # "start" /\ InvalidInput(url[r])) =>
            /\ handler[r].responses = <<invalidUrlResponse>>
            /\ \A op \in Ops : Log(r, op) = <<>>
            /\ guard[r].timer = "unset"
            /\ ext[r].pc = "idle"

C1_Witness ==
    \E r \in Requests :
        /\ url[r] = <<"f","t","p",":","/","/","a">>
        /\ handler[r].responses = <<invalidUrlResponse>>

\* A request has at most one response, it has one exactly from the moment
\* its category is decided, and the status is that of the category.
C2_Categories ==
    \A r \in Requests :
        LET rs == handler[r].responses
            first == FirstEvent(r)
        IN  /\ Len(rs) <= 1
            /\ (handler[r].pc = "done") <=> (Len(rs) = 1)
            /\ handler[r].pc # "start" =>
                   ((InvalidInput(url[r]) \/ first # "none") <=> (Len(rs) = 1))
            /\ Len(rs) = 1 =>
                /\ rs[1].status \in {200, 400, 500, 504}
                /\ (rs[1].status = 400) <=> InvalidInput(url[r])
                /\ (rs[1].status = 200) <=> (first = "fulfilled")
                /\ (rs[1].status = 504) <=> (first = "timer")
                /\ (rs[1].status = 500) <=> (first = "rejected")
                /\ rs[1].status = 200 => rs[1].body = ext[r].outcome.val

\* C2: a request never has more than one response, a request that awaits the
\* guarded extraction eventually has one (a timer that stays armed fires),
\* and the status is that of the category: 400 iff validation failed, 200
\* (with the record the extraction resolved with) iff the extraction resolved
\* before the timer fired, 504 iff the timer fired first, 500 iff the
\* extraction rejected before the timer fired.
C2_OneResponsePerCategory ==
    /\ []C2_Categories
    /\ \A r \in Requests :
           (handler[r].pc = "awaiting") ~> (Len(handler[r].responses) = 1)

C2_Witness ==
    \E r \in Requests :
        /\ hist[r] = <<"rejected">>
        /\ handler[r].responses = <<failureResponse>>

\* C3: once the timer has fired before the extraction settled, the request
\* has the 504 "Timeout" response and no other, at that point and ever after,
\* whatever the extraction does later.
C3_TimeoutOverridesLateOutcome ==
    \A r \in Requests :
        FirstEvent(r) = "timer" => handler[r].responses = <<timeoutResponse>>

C3_Witness ==
    \E r \in Requests :
        /\ hist[r] = <<"timer", "fulfilled">>
        /\ handler[r].responses = <<timeoutResponse>>

\* C4: if the extraction settles while the timer has not fired, then from
\* that step on the timer is cancelled (so its callback never runs), the
\* promise of withTimeout holds exactly the extraction's outcome, and the
\* request is not answered 504.
C4_SettledFirstCancelsTimer ==
    [][\A r \in Requests :
          (ext'[r].outcome.kind # "pending" /\ guard[r].timer # "fired") =>
              /\ guard'[r].timer = "cleared"
              /\ guard'[r].state = ext'[r].outcome
              /\ \A i \in 1 .. Len(handler'[r].responses) :
                     handler'[r].responses[i].status # 504]_vars

C4_Witness ==
    \E r \in Requests :
        /\ hist[r] = <<"fulfilled">>
        /\ guard[r].timer = "cleared"
        /\ guard[r].state = ext[r].outcome

\* C5: goto is called at most DefaultAttempts times; a failed attempt before
\* the last is followed by another; a successful attempt k is the last call,
\* all earlier ones failed, and its response is the navigation's result.
C5_RetryReturnsFirstSuccess ==
    \A r \in Requests :
        LET g == Log(r, "goto")
        IN  /\ Len(g) <= DefaultAttempts
            /\ \A k \in 1 .. Len(g) :
                /\ (g[k].st = "error" /\ k < DefaultAttempts) => Len(g) > k
                /\ g[k].st = "ok" =>
                    /\ Len(g) = k
                    /\ \A j \in 1 .. k - 1 : g[j].st = "error"
                    /\ ext[r].response = g[k].val
                    /\ ext[r].pc \in {"waitForLoadState", "evaluate",
                                      "close", "settled"}

C5_Witness ==
    \E r \in Requests :
        /\ Len(Log(r, "goto")) = 2
        /\ Log(r, "goto")[1].st = "error"
        /\ Log(r, "goto")[2].st = "ok"
        /\ Log(r, "goto")[2].val = Response(404)
        /\ ext[r].response = Response(404)

\* C6: when every navigation attempt has failed, exactly DefaultAttempts goto
\* calls were made, no quiescence wait and no evaluate is performed, close is
\* called exactly once, and extractPageMetadata rejects with the error of the
\* last attempt.
C6_ExhaustionRaisesLastError ==
    \A r \in Requests :
        LET g == Log(r, "goto")
        IN  /\ (g # <<>> /\ \A i \in 1 .. Len(g) : g[i].st = "error") =>
                   Len(g) = DefaultAttempts
            /\ NavExhausted(r) =>
                /\ Log(r, "waitForLoadState") = <<>>
                /\ Log(r, "evaluate") = <<>>
                /\ Len(Log(r, "close")) = 1
                /\ ext[r].pc \in {"close", "settled"}
                /\ ExtSettled(r) =>
                    /\ ext[r].outcome = Rejected(g[DefaultAttempts].val)
                    /\ ext[r].outcome.val = Err("goto", DefaultAttempts)
                    /\ Log(r, "close")[1].st # "pending"

C6_Witness ==
    \E r \in Requests :
        /\ NavExhausted(r)
        /\ ext[r].outcome = Rejected(Err("goto", DefaultAttempts))

\* C7: when the quiescence wait has failed, evaluate is still called, and if
\* it returns a document the extraction completes with the record built from
\* that document and the navigation's response.
C7_QuiescenceFailureTolerated ==
    \A r \in Requests :
        Threw(r, "waitForLoadState") =>
            /\ Len(Log(r, "evaluate")) = 1
            /\ Returned(r, "evaluate") =>
                /\ ext[r].pending =
                       Fulfilled(PageResponse(
                           pageFunction(Log(r, "evaluate")[1].val),
                           ext[r].response))
                /\ ExtSettled(r) => ext[r].outcome = ext[r].pending

C7_Witness ==
    \E r \in Requests :
        /\ Threw(r, "waitForLoadState")
        /\ Returned(r, "evaluate")
        /\ ext[r].outcome.kind = "fulfilled"

\* C8: close is called at most once; when extractPageMetadata has settled
\* after a successful launch, close was called once and had finished; so a
\* 200 or 500 response after a successful launch follows the release.
C8_ClosedBeforeSettling ==
    \A r \in Requests :
        LET c == Log(r, "close")
            rs == handler[r].responses
        IN  /\ Len(c) <= 1
            /\ (ExtSettled(r) /\ Returned(r, "launch")) =>
                   (Len(c) = 1 /\ c[1].st # "pending")
            /\ (rs # <<>> /\ rs[1].status \in {200, 500}
                          /\ Returned(r, "launch")) =>
                   (Len(c) = 1 /\ c[1].st # "pending")

C8_Witness ==
    \E r \in Requests :
        /\ Threw(r, "newPage")
        /\ Returned(r, "close")
        /\ handler[r].responses = <<failureResponse>>

\* The outcome of the pipeline of request r before teardown, read off the
\* results of its browser calls.
PrimaryOutcome(r) ==
    IF Threw(r, "newContext") THEN Rejected(Log(r, "newContext")[1].val)
    ELSE IF Threw(r, "newPage") THEN Rejected(Log(r, "newPage")[1].val)
    ELSE IF NavExhausted(r)
    THEN Rejected(Log(r, "goto")[DefaultAttempts].val)
    ELSE IF Threw(r, "evaluate") THEN Rejected(Log(r, "evaluate")[1].val)
    ELSE Fulfilled(PageResponse(
             pageFunction(Log(r, "evaluate")[1].val),
             Log(r, "goto")[Len(Log(r, "goto"))].val))

\* C9: when close has thrown, extractPageMetadata settles with the outcome
\* the pipeline had produced: the record if there was one, else the
\* pipeline's error, never the error of close.
C9_TeardownFailureSwallowed ==
    \A r \in Requests :
        Threw(r, "close") =>
            /\ ExtSettled(r)
            /\ ext[r].outcome = PrimaryOutcome(r)
            /\ ext[r].outcome.val # Err("close", 1)

C9_Witness ==
    \E r \in Requests :
        /\ Threw(r, "close")
        /\ ext[r].outcome.kind = "fulfilled"

\* C10: the step in which the timer fires leaves the pipeline and its browser
\* calls as they were; and, every browser call settling eventually, a request
\* whose timer fired first and whose launch returned reaches a state where
\* its single close call has finished and its response is still the one 504.
C10_ClosedAfterTimeout ==
    /\ [][\A r \in Requests :
             (guard[r].timer = "armed" /\ guard'[r].timer = "fired") =>
                 (ext'[r] = ext[r] /\ browser'[r] = browser[r])]_vars
    /\ \A r \in Requests :
        (FirstEvent(r) = "timer" /\ Returned(r, "launch")) ~>
            (/\ Len(Log(r, "close")) = 1
             /\ Log(r, "close")[1].st # "pending"
             /\ handler[r].responses = <<timeoutResponse>>)

C10_Witness ==
    \E r \in Requests :
        /\ Len(hist[r]) = 2
        /\ hist[r][1] = "timer"
        /\ Log(r, "close") # <<>>
        /\ Log(r, "close")[1].st # "pending"
        /\ handler[r].responses = <<timeoutResponse>>


\* The responses of request r so far.
Responses(r) == handler[r].responses

\* Some navigation attempt of request r returned.
NavReturned(r) == \E k \in 1 .. Len(Log(r, "goto")) : Log(r, "goto")[k].st = "ok"

\* The last goto call of request r.
LastGoto(r) == Log(r, "goto")[Len(Log(r, "goto"))]

\* C11 as stated: a request all of whose navigation attempts failed has no
\* response other than the 500.
C11_Original ==
    \A r \in Requests :
        (NavExhausted(r) /\ Responses(r) # <<>>) =>
            Responses(r) = <<failureResponse>>

\* C11: a request all of whose navigation attempts failed is answered once
\* the extraction has rejected at the latest, with 500 if the extraction
\* rejected before the timer fired and with 504 if the timer fired first; and
\* attempts that each take the navigation timeout do not fit in the request
\* budget.
C11_ExhaustionAnswer ==
    /\ DefaultAttempts * NAVIGATION_TIMEOUT_MS > REQUEST_TIMEOUT_MS
    /\ \A r \in Requests :
        NavExhausted(r) =>
            /\ ExtSettled(r) => Responses(r) # <<>>
            /\ Responses(r) # <<>> =>
                /\ Responses(r) \in {<<failureResponse>>, <<timeoutResponse>>}
                /\ (Responses(r) = <<failureResponse>>)
                       <=> (FirstEvent(r) = "rejected")
                /\ (Responses(r) = <<timeoutResponse>>)
                       <=> (FirstEvent(r) = "timer")

C11_Witness ==
    \E r \in Requests :
        /\ NavExhausted(r)
        /\ hist[r] = <<"rejected">>
        /\ Responses(r) = <<failureResponse>>
        /\ Returned(r, "close")

\* C12: a metadata record (as the completion of the try block, as the outcome
\* of extractPageMetadata, or in a 200 response) exists only in a request
\* whose launch, newContext and newPage returned, one of whose navigation
\* attempts returned, and whose evaluate returned.
C12_RecordNeedsNavigationAndEvaluate ==
    \A r \in Requests :
        (\/ ext[r].pending.kind = "fulfilled"
         \/ ext[r].outcome.kind = "fulfilled"
         \/ \E i \in 1 .. Len(Responses(r)) : Responses(r)[i].status = 200) =>
            /\ Returned(r, "launch")
            /\ Returned(r, "newContext")
            /\ Returned(r, "newPage")
            /\ NavReturned(r)
            /\ ~NavExhausted(r)
            /\ Returned(r, "evaluate")

C12_Witness ==
    \E r \in Requests :
        /\ Responses(r) # <<>>
        /\ Responses(r)[1].status = 200
        /\ Returned(r, "evaluate")
        /\ Len(Log(r, "goto")) = 1

\* C13: the status of a returned record is the status code of the response of
\* the navigation attempt that returned, and 200 when that attempt returned
\* no response object; the request answered with such a record is a 200.
C13_StatusOfRecord ==
    \A r \in Requests :
        ext[r].outcome.kind = "fulfilled" =>
            /\ LastGoto(r).st = "ok"
            /\ LastGoto(r).val.present =>
                   ext[r].outcome.val.status = LastGoto(r).val.status
            /\ ~LastGoto(r).val.present => ext[r].outcome.val.status = 200
            /\ FirstEvent(r) = "fulfilled" =>
                   Responses(r) = <<successResponse(ext[r].outcome.val)>>

C13_Witness ==
    \E r \in Requests :
        /\ Log(r, "goto") # <<>>
        /\ LastGoto(r).st = "ok"
        /\ LastGoto(r).val = NullResponse
        /\ Responses(r) # <<>>
        /\ Responses(r)[1].status = 200
        /\ Responses(r)[1].body.status = 200


\* Some response of request r is a 200.
Answered200(r) ==
    \E i \in 1 .. Len(Responses(r)) : Responses(r)[i].status = 200

\* Some navigation attempt of request r returned without a response object.
NavReturnedNull(r) ==
    \E k \in 1 .. Len(Log(r, "goto")) :
        Log(r, "goto")[k].st = "ok" /\ Log(r, "goto")[k].val = NullResponse

\* C18 as stated: a request whose navigation yielded no navigation response
\* produces no record and no 200.
C18_Original ==
    \A r \in Requests :
        NavReturnedNull(r) =>
            /\ ext[r].outcome.kind # "fulfilled"
            /\ ~Answered200(r)

\* C18: a request all of whose navigation attempts failed completes its try
\* block with an error, never has a record and is never answered 200; a
\* navigation that returned without a response object is not such a failure:
\* the request goes on to the quiescence wait, and when its evaluate returns
\* its record has status 200.
C18_NoNavigationNoRecord ==
    \A r \in Requests :
        /\ NavExhausted(r) =>
            /\ ext[r].pending.kind = "rejected"
            /\ ext[r].outcome.kind # "fulfilled"
            /\ ~Answered200(r)
            /\ Log(r, "waitForLoadState") = <<>>
            /\ Log(r, "evaluate") = <<>>
        /\ NavReturnedNull(r) =>
            /\ Len(Log(r, "waitForLoadState")) = 1
            /\ Returned(r, "evaluate") =>
                /\ ext[r].pending.kind = "fulfilled"
                /\ ext[r].pending.val.status = DefaultStatus

C18_Witness ==
    \E r \in Requests :
        /\ NavExhausted(r)
        /\ ExtSettled(r)
        /\ Threw(r, "close")
        /\ Responses(r) = <<failureResponse>>

\* C19: launch, newContext and newPage are each called at most once.  After
\* launch threw no other browser operation is called, close included, and the
\* extraction has rejected with the launch error.  After newContext or
\* newPage threw no navigation, wait or evaluate is called, close is called
\* once, and the extraction rejects with that error once close has settled.
\* In both cases the request is answered 500 when the rejection came before
\* the timer fired, and 504 when the timer fired first.
C19_AcquisitionFailureFatal ==
    \A r \in Requests :
        /\ \A op \in {"launch", "newContext", "newPage"} : Len(Log(r, op)) <= 1
        /\ Threw(r, "launch") =>
            /\ \A op \in Ops \ {"launch"} : Log(r, op) = <<>>
            /\ ext[r].outcome = Rejected(Log(r, "launch")[1].val)
        /\ \A op \in {"newContext", "newPage"} :
            Threw(r, op) =>
                /\ \A o \in {"goto", "waitForLoadState", "evaluate"} :
                       Log(r, o) = <<>>
                /\ op = "newContext" => Log(r, "newPage") = <<>>
                /\ Len(Log(r, "close")) = 1
                /\ ext[r].pending = Rejected(Log(r, op)[1].val)
                /\ ExtSettled(r) <=> Log(r, "close")[1].st # "pending"
                /\ ExtSettled(r) => ext[r].outcome = ext[r].pending
        /\ \A op \in {"launch", "newContext", "newPage"} :
            (Threw(r, op) /\ ExtSettled(r)) =>
                /\ FirstEvent(r) = "rejected" =>
                       Responses(r) = <<failureResponse>>
                /\ FirstEvent(r) = "timer" =>
                       Responses(r) = <<timeoutResponse>>

C19_Witness ==
    \E r \in Requests :
        /\ Threw(r, "launch")
        /\ hist[r] = <<"rejected">>
        /\ Responses(r) = <<failureResponse>>


\* The place of a browser operation in the pipeline.
StepIndex(op) ==
    CASE op = "launch" -> 1
      [] op = "newContext" -> 2
      [] op = "newPage" -> 3
      [] op = "goto" -> 4
      [] op = "waitForLoadState" -> 5
      [] op = "evaluate" -> 6
      [] op = "close" -> 7

\* The calls of request r that have not settled.
InFlightOps(r) ==
    {c \in Ops \X (1 .. DefaultAttempts) :
        /\ c[2] <= Len(Log(r, c[1]))
        /\ Log(r, c[1])[c[2]].st = "pending"}

\* The steps of request r were started in pipeline order, each after the
\* previous one settled, never two at a time; the record is built before the
\* teardown starts.
Sequential(r) ==
    /\ Cardinality(InFlightOps(r)) <= 1
    /\ \A op \in Ops \ {"goto"} : Len(Log(r, op)) <= 1
    /\ \A op \in Ops \ {"launch", "close"} :
        Log(r, op) # <<>> =>
            \A o1 \in Ops :
                StepIndex(o1) < StepIndex(op) =>
                    /\ Log(r, o1) # <<>>
                    /\ Log(r, o1)[Len(Log(r, o1))].st # "pending"
                    /\ o1 # "waitForLoadState" =>
                           Log(r, o1)[Len(Log(r, o1))].st = "ok"
    /\ \A k \in 2 .. Len(Log(r, "goto")) : Log(r, "goto")[k - 1].st = "error"
    /\ Log(r, "close") # <<>> =>
        /\ Returned(r, "launch")
        /\ InFlightOps(r) \subseteq {<<"close", 1>>}
        /\ ext[r].pending.kind # "pending"
        /\ Returned(r, "evaluate") <=> ext[r].pending.kind = "fulfilled"

\* No call other than close was made after call k of op.
NothingAfter(r, op, k) ==
    /\ Len(Log(r, op)) = k
    /\ \A o2 \in Ops \ {"close"} :
           StepIndex(o2) > StepIndex(op) => Log(r, o2) = <<>>

\* C16 as stated: the steps are sequential, and after any browser operation
\* that failed nothing but close is called.
C16_Original ==
    \A r \in Requests :
        /\ Sequential(r)
        /\ \A op \in Ops \ {"close"} :
            \A k \in 1 .. Len(Log(r, op)) :
                Log(r, op)[k].st = "error" => NothingAfter(r, op, k)

\* C16: the steps of a request are started in the order launch, newContext,
\* newPage, goto attempts, waitForLoadState, evaluate, building of the
\* record, close, each after the previous one settled and never two in
\* flight; after a failed launch, newContext, newPage, last goto attempt or
\* evaluate nothing but close is called.  (A failed goto attempt before the
\* last is followed by the next attempt, a failed waitForLoadState by
\* evaluate.)
C16_SequentialPipeline ==
    \A r \in Requests :
        /\ Sequential(r)
        /\ \A op \in Ops \ {"close", "waitForLoadState"} :
            \A k \in 1 .. Len(Log(r, op)) :
                (/\ Log(r, op)[k].st = "error"
                 /\ op = "goto" => k = DefaultAttempts) =>
                    NothingAfter(r, op, k)
        /\ \A k \in 1 .. Len(Log(r, "goto")) :
            (Log(r, "goto")[k].st = "error" /\ k < DefaultAttempts) =>
                /\ Len(Log(r, "goto")) = k + 1
        /\ Threw(r, "waitForLoadState") => Len(Log(r, "evaluate")) = 1

C16_Witness ==
    \E r \in Requests :
        /\ Len(Log(r, "goto")) = DefaultAttempts
        /\ Threw(r, "waitForLoadState")
        /\ Returned(r, "evaluate")
        /\ InFlightOps(r) = {<<"close", 1>>}


\* s has single spaces only, none first or last and no two adjacent.
Clean(s) ==
    \A i \in 1 .. Len(s) :
        s[i] \in WhiteSpace =>
            /\ s[i] = " "
            /\ 1 < i
            /\ i < Len(s)
            /\ s[i + 1] \notin WhiteSpace

\* The characters of s that are not white space, in order.
NonWhite(s) ==
    LET IsNonWhite(c) == c \notin WhiteSpace
    IN  SelectSeq(IF s = Null THEN <<>> ELSE s, IsNonWhite)

\* C14: sanitize returns a string with no white space other than single
\* spaces, none adjacent, none leading or trailing, whose other characters
\* are those of the input in order (none for null); sanitizing its output
\* changes nothing; the three string fields of a record are such outputs of
\* the fields of the evaluated data.
C14_SanitizeNormalizes ==
    /\ pure.fn \in {"sanitize", "again"} =>
        /\ Clean(pure.out)
        /\ NonWhite(pure.out) = NonWhite(pure.input)
        /\ pure.input = Null => pure.out = <<>>
    /\ pure.fn = "again" => pure.again = pure.out
    /\ pure.fn = "record" =>
        \A f \in Fields :
            /\ Clean(pure.record[f])
            /\ NonWhite(pure.record[f]) = NonWhite(pure.data[f])

C14_Witness ==
    /\ pure.fn = "again"
    /\ pure.input = <<"a", "\t", "\n", "b">>
    /\ pure.out = <<"a", " ", "b">>
    /\ pure.again = <<"a", " ", "b">>

\* The content attribute of a description tag, when the tag is in the
\* document and has one.
HasContent(el) == el.exists /\ el.content # Null

\* C15: metaDescription is the sanitized content of meta[name=description]
\* when it has one, otherwise that of meta[property=og:description] when it
\* has one, otherwise empty; h1 is the sanitized text of the first h1, or
\* empty without one.  No description, og:description "  A   test site  "
\* and <h1>Welcome</h1> give "A test site" and "Welcome".
C15_DescriptionAndHeading ==
    pure.fn = "return" =>
        LET doc == pure.doc
            record == pure.record
        IN  /\ HasContent(doc.metaName) =>
                   record.metaDescription = sanitize(doc.metaName.content)
            /\ (~HasContent(doc.metaName) /\ HasContent(doc.metaOg)) =>
                   record.metaDescription = sanitize(doc.metaOg.content)
            /\ (~HasContent(doc.metaName) /\ ~HasContent(doc.metaOg)) =>
                   record.metaDescription = <<>>
            /\ doc.h1 # <<>> => record.h1 = sanitize(doc.h1[1])
            /\ doc.h1 = <<>> => record.h1 = <<>>
            /\ (/\ doc.metaName = NoElement
                /\ doc.metaOg =
                       Element(<<" ", " ", "A", " ", " ", " ", "t", "e", "s",
                                 "t", " ", "s", "i", "t", "e", " ", " ">>)
                /\ doc.h1 = << <<"W", "e", "l", "c", "o", "m", "e">> >>) =>
                    /\ record.metaDescription =
                           <<"A", " ", "t", "e", "s", "t", " ", "s", "i", "t",
                             "e">>
                    /\ record.h1 = <<"W", "e", "l", "c", "o", "m", "e">>

C15_Witness ==
    /\ pure.fn = "return"
    /\ pure.doc.metaName = NoElement
    /\ pure.doc.metaOg # NoElement
    /\ pure.doc.h1 = << <<"W", "e", "l", "c", "o", "m", "e">> >>
    /\ pure.record.metaDescription =
           <<"A", " ", "t", "e", "s", "t", " ", "s", "i", "t", "e">>
    /\ pure.record.h1 = <<"W", "e", "l", "c", "o", "m", "e">>
    /\ pure.record.status = 200


\* The responses of a request, from its own url and its own events alone.
OwnAnswer(raw, pc, events, log) ==
    IF pc = "start" THEN <<>>
    ELSE IF InvalidInput(raw) THEN <<invalidUrlResponse>>
    ELSE IF events = <<>> THEN <<>>
    ELSE IF events[1] = "timer" THEN <<timeoutResponse>>
    ELSE IF events[1] = "rejected" THEN <<failureResponse>>
    ELSE <<successResponse(
             PageResponse(pageFunction(log["evaluate"][1].val),
                          log["goto"][Len(log["goto"])].val))>>

\* The step leaves request q as it was.
Untouched(q) ==
    /\ url'[q] = url[q]
    /\ handler'[q] = handler[q]
    /\ guard'[q] = guard[q]
    /\ ext'[q] = ext[q]
    /\ browser'[q] = browser[q]
    /\ hist'[q] = hist[q]

\* C17: among concurrent requests, each launches at most one engine (exactly
\* one once a valid request has started), the engines of different requests
\* are different, every other browser operation of a request is made on the
\* engine its own launch returned, the responses of a request are a function
\* of its own url and its own events, and every step leaves all requests
\* but one untouched.
C17_RequestsIndependent ==
    /\ [](\A r \in Concurrent :
            /\ Len(Log(r, "launch")) <= 1
            /\ (handler[r].pc # "start" /\ ~InvalidInput(url[r])) =>
                   Len(Log(r, "launch")) = 1
            /\ \A q \in Concurrent \ {r} :
                   (Returned(r, "launch") /\ Returned(q, "launch")) =>
                       Log(r, "launch")[1].val # Log(q, "launch")[1].val
            /\ \A op \in Ops \ {"launch"} :
                   \A k \in 1 .. Len(Log(r, op)) :
                       /\ Returned(r, "launch")
                       /\ Log(r, op)[k].on = Log(r, "launch")[1].val
            /\ Responses(r) =
                   OwnAnswer(url[r], handler[r].pc, hist[r], browser[r]))
    /\ [][\E r \in Concurrent : \A q \in Concurrent \ {r} : Untouched(q)]_vars

C17_Witness ==
    \E r \in Concurrent :
        \E q \in Concurrent \ {r} :
            /\ Responses(r) = <<timeoutResponse>>
            /\ Log(r, "goto") # <<>>
            /\ Log(r, "close") = <<>>
            /\ Returned(q, "launch")
            /\ Responses(q) # <<>>
            /\ Responses(q)[1].status = 200
            /\ Log(q, "goto")[1].on # Log(r, "goto")[1].on


\* C20: result and error are never both set; isLoading is true exactly while
\* handleSubmit awaits its fetch or the body, which is exactly while the abort
\* timer is pending; and when handleSubmit has finished (until the next
\* prefill or valid submit) isLoading is false, no abort timer is pending,
\* and exactly one of result and error is set: result after a 200, error
\* after anything else.
C20_ClientForm ==
    /\ client.result.isNull \/ client.error.isNull
    /\ client.isLoading <=> client.pc \in {"fetch", "json"}
    /\ client.isLoading <=> client.timeout = "armed"
    /\ client.last # "none" =>
        /\ ~client.isLoading
        /\ client.pc = "idle"
        /\ client.timeout # "armed"
        /\ client.result.isNull # client.error.isNull
        /\ client.last = "success" <=> ~client.result.isNull
        /\ client.last = "invalid" =>
               client.error = State("Please enter a valid http(s) URL.")
        /\ client.last = "abort" =>
               /\ client.error =
                      State("Client timeout reached. Please try again.")
               /\ client.timeout = "fired"
        /\ client.last \in {"success", "http", "parse", "network"} =>
               client.timeout = "cleared"
        /\ client.last = "http" =>
               client.error.value \in
                   {"Invalid URL", "Timeout", "Unable to complete scrape"}

C20_Witness ==
    /\ client.last = "abort"
    /\ client.response.ok
    /\ client.result.isNull
    /\ client.error = State("Client timeout reached. Please try again.")
    /\ ~client.isLoading
    /\ client.url # client.trimmed

====
